---- MODULE Spec2Model ----
(***************************************************************************)
(* Model of alpaca.py: the Device client of the ASCOM Alpaca HTTP API.     *)
(*                                                                         *)
(* Python strings are sequences of one-character strings, so that "%d"     *)
(* formatting, str.split and str.strip are computed character by           *)
(* character.  A Python scalar is a record [t, s, b]: its type name, its   *)
(* characters when it is a str, its truth value when it is a bool.         *)
(***************************************************************************)
EXTENDS Integers, Sequences, FiniteSets, TLC

VARIABLES
    pc,          \* "new" before Device(...) is called, "failed" when it raised, else
                 \* "ready" between calls and "calling" while a call awaits its response
    ctor_args,   \* the arguments Device(...) was called with
    ctor_error,  \* the exception Device(...) raised, if any
    self,        \* the fields of the Device object
    call,        \* the public method called last (or being called), with its arguments
    reply,       \* the HTTP response the server gave to that call
    requests,    \* the HTTP requests that call issued, in order
    prim,        \* what _get / _put did in that call
    result       \* what the public method did: a return or a raise

vars == <<pc, ctor_args, ctor_error, self, call, reply, requests, prim, result>>

----------------------------------------------------------------------------
(* Bounds *)

MaxLen == 3      \* longest driverinfo string the server returns
MaxParams == 2   \* most *args given to action()

----------------------------------------------------------------------------
(* Python values *)

PyStr(chars) == [t |-> "str", s |-> chars, b |-> FALSE]
PyBool(bool) == [t |-> "bool", s |-> <<>>, b |-> bool]
PyNone == [t |-> "None", s |-> <<>>, b |-> FALSE]

Return(v) == [kind |-> "return", value |-> v]
Raise(exc, arg) == [kind |-> "raise", exc |-> exc, arg |-> arg]
NoOutcome == [kind |-> "none"]

\* string literals of alpaca.py
S_action == <<"a","c","t","i","o","n">>
S_commandblind == <<"c","o","m","m","a","n","d","b","l","i","n","d">>
S_commandbool == <<"c","o","m","m","a","n","d","b","o","o","l">>
S_commandstring == <<"c","o","m","m","a","n","d","s","t","r","i","n","g">>
S_connected == <<"c","o","n","n","e","c","t","e","d">>
S_name == <<"n","a","m","e">>
S_driverinfo == <<"d","r","i","v","e","r","i","n","f","o">>
S_driverversion == <<"d","r","i","v","e","r","v","e","r","s","i","o","n">>
S_interfaceversion == <<"i","n","t","e","r","f","a","c","e","v","e","r","s","i","o","n">>
S_supportedactions == <<"s","u","p","p","o","r","t","e","d","a","c","t","i","o","n","s">>
S_Value == <<"V","a","l","u","e">>
S_ErrorNumber == <<"E","r","r","o","r","N","u","m","b","e","r">>
S_ErrorMessage == <<"E","r","r","o","r","M","e","s","s","a","g","e">>

DEFAULT_API_VERSION == 1

----------------------------------------------------------------------------
(* "%d" % n for an int n *)

DigitChar(d) ==
    CASE d = 0 -> "0" [] d = 1 -> "1" [] d = 2 -> "2" [] d = 3 -> "3"
      [] d = 4 -> "4" [] d = 5 -> "5" [] d = 6 -> "6" [] d = 7 -> "7"
      [] d = 8 -> "8" [] d = 9 -> "9"

RECURSIVE FmtNat(_)
FmtNat(n) == IF n < 10 THEN <<DigitChar(n)>>
             ELSE FmtNat(n \div 10) \o <<DigitChar(n % 10)>>

FmtD(n) == IF n < 0 THEN <<"-">> \o FmtNat(0 - n) ELSE FmtNat(n)

----------------------------------------------------------------------------
(* str.split(",") and str.strip() *)

Whitespace == {" ", "\t", "\n", "\r", "\f"}

RECURSIVE Split(_)
Split(s) ==
    IF \A i \in 1..Len(s) : s[i] # ","
    THEN <<s>>
    ELSE LET i == CHOOSE k \in 1..Len(s) :
                      s[k] = "," /\ \A j \in 1..(k - 1) : s[j] # ","
         IN <<SubSeq(s, 1, i - 1)>> \o Split(SubSeq(s, i + 1, Len(s)))

RECURSIVE LStrip(_)
LStrip(s) == IF s # <<>> /\ Head(s) \in Whitespace THEN LStrip(Tail(s)) ELSE s

RECURSIVE RStrip(_)
RStrip(s) == IF s # <<>> /\ s[Len(s)] \in Whitespace
             THEN RStrip(SubSeq(s, 1, Len(s) - 1)) ELSE s

\* strip removing the leading whitespace only
strip_left_only(s) == LStrip(s)

Strip(s) == RStrip(LStrip(s))

----------------------------------------------------------------------------
(* HTTP responses.  response.json() decodes the body; the decoded envelope *)
(* is a record of the three fields with `has` naming the keys present (a   *)
(* key that is absent keeps a fixed filler value that is never read).      *)

Envelope(has, value, errno, errmsg) ==
    [has |-> has,
     Value |-> IF "Value" \in has THEN value ELSE PyNone,
     ErrorNumber |-> IF "ErrorNumber" \in has THEN errno ELSE 0,
     ErrorMessage |-> IF "ErrorMessage" \in has THEN errmsg ELSE <<>>]

EnvelopeKeys == {"Value", "ErrorNumber", "ErrorMessage"}

Statuses == {200, 400, 404, 500, 503}

Values == {PyStr(<<"o","k">>), PyStr(<<"A",","," ","B"," ",",","C">>),
           PyBool(TRUE), PyBool(FALSE)}

ErrorNumbers == {0, 1031, -3}

ErrorMessages == {<<>>, <<"n","o"," ","%","d">>}

Envelopes ==
    {Envelope(has, v, n, m) :
        has \in SUBSET EnvelopeKeys, v \in Values, n \in ErrorNumbers,
        m \in ErrorMessages}

NoEnvelope == Envelope({}, PyNone, 0, <<>>)

\* a body that is not JSON has no envelope: response.json() raises
Responses ==
    {[status_code |-> st, is_json |-> TRUE, body |-> e] :
        st \in Statuses, e \in Envelopes}
    \cup {[status_code |-> st, is_json |-> FALSE, body |-> NoEnvelope] :
        st \in Statuses}

\* the strings a server may answer `driverinfo` with, up to MaxLen characters
InfoAlphabet == {"A", "B", ",", " ", "\t"}

InfoStrings == UNION {[1..n -> InfoAlphabet] : n \in 0..MaxLen}

InfoResponses ==
    {[status_code |-> 200, is_json |-> TRUE,
      body |-> Envelope(EnvelopeKeys, PyStr(s), 0, <<>>)] : s \in InfoStrings}

NoResponse == [status_code |-> 0, is_json |-> FALSE, body |-> NoEnvelope]

----------------------------------------------------------------------------
(* Device.__init__ *)

CtorParams == {"address", "device_type", "device_number", "protocall", "api_version"}

NoDevice == [address |-> <<>>, device_type |-> <<>>, device_number |-> 0,
             api_version |-> 0, base_url |-> <<>>]

\* __init__ with the last two arguments of the format in the other order
init_number_before_type(address, device_type, device_number, protocall, api_version) ==
    [address |-> address,
     device_type |-> device_type,
     device_number |-> device_number,
     api_version |-> api_version,
     base_url |-> protocall \o <<":","/","/">> \o address
                  \o <<"/","a","p","i","/","v">> \o FmtD(api_version)
                  \o <<"/">> \o FmtD(device_number) \o <<"/">> \o device_type]

__init__(address, device_type, device_number, protocall, api_version) ==
    [address |-> address,
     device_type |-> device_type,
     device_number |-> device_number,
     api_version |-> api_version,
     base_url |-> protocall \o <<":","/","/">> \o address
                  \o <<"/","a","p","i","/","v">> \o FmtD(api_version)
                  \o <<"/">> \o device_type \o <<"/">> \o FmtD(device_number)]

\* Device(...): Python binds the arguments to the five parameters of
\* __init__, none of which has a default, before the body runs.
Device(args) ==
    IF args.given # CtorParams
    THEN [self |-> NoDevice, outcome |-> Raise("TypeError", PyNone)]
    ELSE [self |-> __init__(args.address, args.device_type, args.device_number,
                            args.protocall, args.api_version),
          outcome |-> Return(PyNone)]

----------------------------------------------------------------------------
(* Device.__check_error, Device._get, Device._put *)

\* response.json()[key]: the decoded body indexed by a key
KeyError(key) == Raise("KeyError", PyStr(key))
JSONDecodeError == Raise("JSONDecodeError", PyNone)

\* "Error %d: %s" % (ErrorNumber, ErrorMessage)
ErrorText(errno, errmsg) ==
    <<"E","r","r","o","r"," ">> \o FmtD(errno) \o <<":"," ">> \o errmsg

\* __check_error with the two tests in the other order: the status first
check_error_status_first(response) ==
    LET body == response.body IN
    IF ~ response.is_json THEN JSONDecodeError
    ELSE IF response.status_code = 400 \/ response.status_code = 500
         THEN IF "Value" \notin body.has THEN KeyError(S_Value)
              ELSE Raise("Exception", body.Value)
    ELSE IF "ErrorNumber" \notin body.has THEN KeyError(S_ErrorNumber)
    ELSE IF body.ErrorNumber # 0
         THEN IF "ErrorMessage" \notin body.has THEN KeyError(S_ErrorMessage)
              ELSE Raise("Exception",
                         PyStr(ErrorText(body.ErrorNumber, body.ErrorMessage)))
    ELSE Return(PyNone)

\* __check_error taking every status from 400 up for a transport error
check_error_any_4xx_5xx(response) ==
    LET body == response.body IN
    IF ~ response.is_json THEN JSONDecodeError
    ELSE IF "ErrorNumber" \notin body.has THEN KeyError(S_ErrorNumber)
    ELSE IF body.ErrorNumber # 0
         THEN IF "ErrorMessage" \notin body.has THEN KeyError(S_ErrorMessage)
              ELSE Raise("Exception",
                         PyStr(ErrorText(body.ErrorNumber, body.ErrorMessage)))
    ELSE IF response.status_code >= 400
         THEN IF "Value" \notin body.has THEN KeyError(S_Value)
              ELSE Raise("Exception", body.Value)
    ELSE Return(PyNone)

\* the outcome of self.__check_error(response): a raise, or a return of None
__check_error(response) ==
    LET body == response.body IN
    IF ~ response.is_json THEN JSONDecodeError
    ELSE IF "ErrorNumber" \notin body.has THEN KeyError(S_ErrorNumber)
    ELSE IF body.ErrorNumber # 0
         THEN IF "ErrorMessage" \notin body.has THEN KeyError(S_ErrorMessage)
              ELSE Raise("Exception",
                         PyStr(ErrorText(body.ErrorNumber, body.ErrorMessage)))
    ELSE IF response.status_code = 400 \/ response.status_code = 500
         THEN IF "Value" \notin body.has THEN KeyError(S_Value)
              ELSE Raise("Exception", body.Value)
    ELSE Return(PyNone)

\* "%s/%s" % (self.base_url, attribute)
Url(base_url, attribute) == base_url \o <<"/">> \o attribute

\* _get asking a second time when the first answer is an error
get_with_retry(this, attribute, response) ==
    LET request == [method |-> "GET", url |-> Url(this.base_url, attribute)]
        checked == __check_error(response)
    IN [self |-> this,
        requests |-> IF checked.kind = "raise" THEN <<request, request>>
                     ELSE <<request>>,
        outcome |-> IF checked.kind = "raise" THEN checked
                    ELSE IF "Value" \notin response.body.has THEN KeyError(S_Value)
                    ELSE Return(response.body.Value)]

\* self._get(attribute), the server answering `response`
_get(this, attribute, response) ==
    LET request == [method |-> "GET", url |-> Url(this.base_url, attribute)]
        checked == __check_error(response)
    IN [self |-> this,
        requests |-> <<request>>,
        outcome |-> IF checked.kind = "raise" THEN checked
                    ELSE IF "Value" \notin response.body.has THEN KeyError(S_Value)
                    ELSE Return(response.body.Value)]

\* _put keeping the URL it built in self.base_url
put_storing_url(this, attribute, data, response) ==
    LET request == [method |-> "PUT", url |-> Url(this.base_url, attribute),
                    data |-> data]
        checked == __check_error(response)
    IN [self |-> [this EXCEPT !.base_url = request.url],
        requests |-> <<request>>,
        outcome |-> IF checked.kind = "raise" THEN checked
                    ELSE Return([t |-> "dict", d |-> response.body])]

\* self._put(attribute, data), the server answering `response`
_put(this, attribute, data, response) ==
    LET request == [method |-> "PUT", url |-> Url(this.base_url, attribute),
                    data |-> data]
        checked == __check_error(response)
    IN [self |-> this,
        requests |-> <<request>>,
        outcome |-> IF checked.kind = "raise" THEN checked
                    ELSE Return([t |-> "dict", d |-> response.body])]

----------------------------------------------------------------------------
(* The public methods.  Each gives the object after the call, the requests *)
(* issued, what the primitive did (prim) and what the method did (outcome).*)

Done(p, outcome) ==
    [self |-> p.self, requests |-> p.requests, prim |-> p.outcome,
     outcome |-> outcome]

\* p["Value"] applied to what _put returned
ValueOfPut(p) ==
    IF p.outcome.kind = "raise" THEN p.outcome
    ELSE IF "Value" \notin p.outcome.value.d.has THEN KeyError(S_Value)
    ELSE Return(p.outcome.value.d.Value)

\* action returning what _put returned, not its "Value"
action_returning_body(this, action_name, args, response) ==
    LET p == _put(this, S_action, [Action |-> action_name, Parameters |-> args], response)
    IN Done(p, p.outcome)

action(this, action_name, args, response) ==
    LET p == _put(this, S_action, [Action |-> action_name, Parameters |-> args], response)
    IN Done(p, ValueOfPut(p))

commandblind(this, command, raw, response) ==
    LET p == _put(this, S_commandblind, [Command |-> command, Raw |-> raw], response)
    IN Done(p, ValueOfPut(p))

commandbool(this, command, raw, response) ==
    LET p == _put(this, S_commandbool, [Command |-> command, Raw |-> raw], response)
    IN Done(p, ValueOfPut(p))

commandstring(this, command, raw, response) ==
    LET p == _put(this, S_commandstring, [Command |-> command, Raw |-> raw], response)
    IN Done(p, ValueOfPut(p))

\* connected testing `if not connected` in place of `connected == None`
connected_by_truth(this, state, response) ==
    IF state.t = "None" \/ (state.t = "bool" /\ ~ state.b)
    THEN LET p == _get(this, S_connected, response) IN Done(p, p.outcome)
    ELSE LET p == _put(this, S_connected, [Connected |-> state], response)
         IN Done(p, IF p.outcome.kind = "raise" THEN p.outcome ELSE Return(PyNone))

connected(this, state, response) ==
    IF state.t = "None"
    THEN LET p == _get(this, S_connected, response) IN Done(p, p.outcome)
    ELSE LET p == _put(this, S_connected, [Connected |-> state], response)
         IN Done(p, IF p.outcome.kind = "raise" THEN p.outcome ELSE Return(PyNone))

description(this, response) ==
    LET p == _get(this, S_name, response) IN Done(p, p.outcome)

driverinfo(this, response) ==
    LET p == _get(this, S_driverinfo, response)
    IN Done(p, IF p.outcome.kind = "raise" THEN p.outcome
               ELSE IF p.outcome.value.t # "str"
                    THEN Raise("AttributeError", PyNone)
               ELSE LET parts == Split(p.outcome.value.s)
                    IN Return([t |-> "list",
                               l |-> [i \in 1..Len(parts) |-> PyStr(Strip(parts[i]))]]))

driverversion(this, response) ==
    LET p == _get(this, S_driverversion, response) IN Done(p, p.outcome)

interfaceversion(this, response) ==
    LET p == _get(this, S_interfaceversion, response) IN Done(p, p.outcome)

name(this, response) ==
    LET p == _get(this, S_name, response) IN Done(p, p.outcome)

supportedactions(this, response) ==
    LET p == _get(this, S_supportedactions, response) IN Done(p, p.outcome)

----------------------------------------------------------------------------
(* Inputs *)

Protocalls == {<<"h","t","t","p">>, <<"h","t","t","p","s">>}
Addresses == {<<"h","o","s","t",":","8","0">>}
DeviceTypes == {<<"d","o","m","e">>}
DeviceNumbers == {0, 12}
ApiVersions == {1, 2}

CtorArgs ==
    {[given |-> CtorParams, address |-> a, device_type |-> t, device_number |-> n,
      protocall |-> p, api_version |-> v] :
        a \in Addresses, t \in DeviceTypes, n \in DeviceNumbers,
        p \in Protocalls, v \in ApiVersions}
    \cup
    {[given |-> CtorParams \ {"api_version"}, address |-> a, device_type |-> t,
      device_number |-> n, protocall |-> p, api_version |-> 0] :
        a \in Addresses, t \in DeviceTypes, n \in DeviceNumbers,
        p \in Protocalls}

NoArgs == [given |-> {}, address |-> <<>>, device_type |-> <<>>,
           device_number |-> 0, protocall |-> <<>>, api_version |-> 0]

ActionNames == {<<"p","a","r","k">>}
ActionParams == {<<"x">>, <<"y","z">>}
ParamTuples == UNION {[1..n -> ActionParams] : n \in 0..MaxParams}
Commands == {<<":","G","R","#">>}
ConnectedArgs == {PyNone, PyBool(TRUE), PyBool(FALSE)}

----------------------------------------------------------------------------
(* The state machine *)

Init ==
    /\ pc = "new"
    /\ ctor_args = NoArgs
    /\ ctor_error = NoOutcome
    /\ self = NoDevice
    /\ call = [op |-> "none"]
    /\ reply = NoResponse
    /\ requests = <<>>
    /\ prim = NoOutcome
    /\ result = NoOutcome

Construct ==
    /\ pc = "new"
    /\ \E args \in CtorArgs :
          LET d == Device(args) IN
          /\ ctor_args' = args
          /\ self' = d.self
          /\ ctor_error' = d.outcome
          /\ pc' = IF d.outcome.kind = "raise" THEN "failed" ELSE "ready"
    /\ UNCHANGED <<call, reply, requests, prim, result>>

\* the caller enters a public method; what the previous call left is dropped
Enter(c) ==
    /\ pc = "ready"
    /\ pc' = "calling"
    /\ call' = c
    /\ reply' = NoResponse
    /\ requests' = <<>>
    /\ prim' = NoOutcome
    /\ result' = NoOutcome
    /\ UNCHANGED <<ctor_args, ctor_error, self>>

Invoke ==
    \/ \E n \in ActionNames, a \in ParamTuples :
          Enter([op |-> "action", action |-> n, args |-> a])
    \/ \E o \in {"commandblind", "commandbool", "commandstring"},
          c \in Commands, raw \in BOOLEAN :
          Enter([op |-> o, command |-> c, raw |-> raw])
    \/ \E st \in ConnectedArgs : Enter([op |-> "connected", connected |-> st])
    \/ \E o \in {"description", "driverinfo", "driverversion", "interfaceversion",
                 "name", "supportedactions"} : Enter([op |-> o])

\* the method runs to its end, the server answering r
Finish(o, r, d) ==
    /\ pc = "calling"
    /\ call.op = o
    /\ pc' = "ready"
    /\ reply' = r
    /\ self' = d.self
    /\ requests' = d.requests
    /\ prim' = d.prim
    /\ result' = d.outcome
    /\ UNCHANGED <<call, ctor_args, ctor_error>>

CallAction ==
    \E r \in Responses :
        Finish("action", r, action(self, call.action, call.args, r))

CallCommandblind ==
    \E r \in Responses :
        Finish("commandblind", r, commandblind(self, call.command, call.raw, r))

CallCommandbool ==
    \E r \in Responses :
        Finish("commandbool", r, commandbool(self, call.command, call.raw, r))

CallCommandstring ==
    \E r \in Responses :
        Finish("commandstring", r, commandstring(self, call.command, call.raw, r))

CallConnected ==
    \E r \in Responses :
        Finish("connected", r, connected(self, call.connected, r))

CallDescription ==
    \E r \in Responses : Finish("description", r, description(self, r))

CallDriverinfo ==
    \E r \in Responses \cup InfoResponses :
        Finish("driverinfo", r, driverinfo(self, r))

CallDriverversion ==
    \E r \in Responses : Finish("driverversion", r, driverversion(self, r))

CallInterfaceversion ==
    \E r \in Responses : Finish("interfaceversion", r, interfaceversion(self, r))

CallName ==
    \E r \in Responses : Finish("name", r, name(self, r))

CallSupportedactions ==
    \E r \in Responses : Finish("supportedactions", r, supportedactions(self, r))

Next ==
    \/ Construct
    \/ Invoke
    \/ CallAction
    \/ CallCommandblind
    \/ CallCommandbool
    \/ CallCommandstring
    \/ CallConnected
    \/ CallDescription
    \/ CallDriverinfo
    \/ CallDriverversion
    \/ CallInterfaceversion
    \/ CallName
    \/ CallSupportedactions

Spec == Init /\ [][Next]_vars

----------------------------------------------------------------------------
(* Vocabulary of the properties *)

Digits == {"0", "1", "2", "3", "4", "5", "6", "7", "8", "9"}

DigitValue(c) ==
    CASE c = "0" -> 0 [] c = "1" -> 1 [] c = "2" -> 2 [] c = "3" -> 3
      [] c = "4" -> 4 [] c = "5" -> 5 [] c = "6" -> 6 [] c = "7" -> 7
      [] c = "8" -> 8 [] c = "9" -> 9

RECURSIVE NumeralValue(_)
NumeralValue(d) ==
    IF d = <<>> THEN 0
    ELSE 10 * NumeralValue(SubSeq(d, 1, Len(d) - 1)) + DigitValue(d[Len(d)])

\* d is the decimal numeral of the natural number n, without leading zeros
IsNumeralOf(d, n) ==
    /\ d # <<>>
    /\ \A i \in 1..Len(d) : d[i] \in Digits
    /\ Len(d) > 1 => d[1] # "0"
    /\ NumeralValue(d) = n

\* d is the decimal writing of the integer n
IsDecimalOf(d, n) ==
    IF n < 0 THEN d # <<>> /\ d[1] = "-" /\ IsNumeralOf(Tail(d), 0 - n)
    ELSE IsNumeralOf(d, n)

Contains(s, sub) ==
    \E i \in 1..(Len(s) - Len(sub) + 1) : SubSeq(s, i, i + Len(sub) - 1) = sub

\* a call has run to its end
Called == pc = "ready" /\ call.op # "none"

\* the response carries a decoded envelope with these keys
Has(keys) == reply.is_json /\ keys \subseteq reply.body.has

----------------------------------------------------------------------------
(* Error handling *)

\* C1: whenever the envelope of the response to a public operation has
\* ErrorNumber != 0 (and its ErrorMessage), the operation raises instead of
\* returning, and the error raised is "Error <ErrorNumber in decimal>:
\* <ErrorMessage>", whatever the HTTP status, 400 and 500 included.
C1_ProtocolErrorRaised ==
    (Called /\ Has({"ErrorNumber", "ErrorMessage"}) /\ reply.body.ErrorNumber # 0)
    => /\ result.kind = "raise"
       /\ result.exc = "Exception"
       /\ result.arg.t = "str"
       /\ \E j \in 7..Len(result.arg.s) :
             LET d == SubSeq(result.arg.s, 7, j) IN
             /\ IsDecimalOf(d, reply.body.ErrorNumber)
             /\ result.arg.s = <<"E","r","r","o","r"," ">> \o d \o <<":"," ">>
                                \o reply.body.ErrorMessage

\* a PUT answered with status 500 and ErrorNumber 1031 has raised
C1_Witness ==
    /\ Called
    /\ call.op = "connected"
    /\ call.connected.t = "bool"
    /\ Has({"Value", "ErrorNumber", "ErrorMessage"})
    /\ reply.status_code = 500
    /\ reply.body.ErrorNumber = 1031
    /\ reply.body.ErrorMessage # <<>>
    /\ result.kind = "raise"

\* C2: when the envelope has ErrorNumber == 0 (and a Value), the GET or PUT
\* raises exactly when the status is 400 or 500, the error then carrying the
\* Value; with any other status, 404 and 503 included, the GET returns the
\* Value and the PUT the whole decoded body.
C2_TransportError ==
    (Called /\ Has({"ErrorNumber", "Value"}) /\ reply.body.ErrorNumber = 0)
    => /\ prim.kind \in {"raise", "return"}
       /\ prim.kind = "raise" <=> reply.status_code \in {400, 500}
       /\ prim.kind = "raise"
             => prim.exc = "Exception" /\ prim.arg = reply.body.Value
       /\ (prim.kind = "return" /\ requests[1].method = "GET")
             => prim.value.t # "dict" /\ prim.value = reply.body.Value
       /\ (prim.kind = "return" /\ requests[1].method = "PUT")
             => prim.value.t = "dict" /\ prim.value.d = reply.body

\* a PUT answered 404 with ErrorNumber 0 and a Value has returned
C2_Witness ==
    /\ Called
    /\ Has({"ErrorNumber", "Value"})
    /\ reply.body.ErrorNumber = 0
    /\ reply.status_code = 404
    /\ requests[1].method = "PUT"
    /\ prim.kind = "return"

\* C8: a response with status 400 or 500 whose envelope has a Value but
\* neither ErrorNumber nor ErrorMessage makes the operation raise the
\* transport-level error carrying the Value, and no other failure.
C8_TransportErrorWithoutErrorFields ==
    (Called /\ reply.is_json /\ reply.body.has = {"Value"}
            /\ reply.status_code \in {400, 500})
    => /\ result.kind = "raise"
       /\ result.exc = "Exception"
       /\ result.arg = reply.body.Value

----------------------------------------------------------------------------
(* URLs and requests *)

\* the attribute each operation asks for (description asks for `name`)
AttributeOf(op) ==
    CASE op = "action" -> S_action
      [] op = "commandblind" -> S_commandblind
      [] op = "commandbool" -> S_commandbool
      [] op = "commandstring" -> S_commandstring
      [] op = "connected" -> S_connected
      [] op = "description" -> S_name
      [] op = "driverinfo" -> S_driverinfo
      [] op = "driverversion" -> S_driverversion
      [] op = "interfaceversion" -> S_interfaceversion
      [] op = "name" -> S_name
      [] op = "supportedactions" -> S_supportedactions

\* url is {protocol}://{address}/api/v{api_version}/{device_type}/{device_number}
MatchesTemplate(url, a) ==
    LET front == a.protocall \o <<":","/","/">> \o a.address
                 \o <<"/","a","p","i","/","v">>
    IN \E k1 \in 1..(Len(url) - Len(front)), k2 \in 1..Len(url) :
          LET dv == SubSeq(url, Len(front) + 1, Len(front) + k1)
              dn == SubSeq(url, Len(url) - k2 + 1, Len(url))
          IN /\ IsDecimalOf(dv, a.api_version)
             /\ IsDecimalOf(dn, a.device_number)
             /\ url = front \o dv \o <<"/">> \o a.device_type \o <<"/">> \o dn

Success ==
    /\ Has({"ErrorNumber", "Value"})
    /\ reply.body.ErrorNumber = 0
    /\ reply.status_code \notin {400, 500}

\* C4: connected() without a state issues one GET to `connected`, no PUT, and
\* returns the Value; connected(state) with True or with False issues one PUT
\* to `connected` with the data {Connected: state}, no GET, and returns None.
C4_Connected ==
    (Called /\ call.op = "connected")
    => /\ Len(requests) = 1
       /\ requests[1].url = self.base_url \o <<"/">> \o S_connected
       /\ call.connected.t = "None"
             => /\ requests[1].method = "GET"
                /\ Success => result.kind = "return" /\ result.value = reply.body.Value
       /\ call.connected.t = "bool"
             => /\ requests[1].method = "PUT"
                /\ DOMAIN requests[1].data = {"Connected"}
                /\ requests[1].data.Connected = call.connected
                /\ Success => result.kind = "return" /\ result.value = PyNone

\* connected(False) has returned after a successful response with a Value
C4_Witness ==
    /\ Called
    /\ call.op = "connected"
    /\ call.connected = PyBool(FALSE)
    /\ Success
    /\ reply.body.Value = PyBool(TRUE)
    /\ result.kind = "return"

\* connected() has returned the Value of a successful response
C4_WitnessGet ==
    /\ Called
    /\ call.op = "connected"
    /\ call.connected = PyNone
    /\ Success
    /\ result.kind = "return"

\* C5: action(name, *params) issues a PUT to {base_url}/action with the data
\* {Action: name, Parameters: params}, the parameters in call order and the
\* empty tuple when none is given, and on a successful response returns the
\* Value of the envelope, not the whole body.
C5_Action ==
    (Called /\ call.op = "action")
    => /\ Len(requests) = 1
       /\ requests[1].method = "PUT"
       /\ requests[1].url = self.base_url \o <<"/">> \o S_action
       /\ DOMAIN requests[1].data = {"Action", "Parameters"}
       /\ requests[1].data.Action = call.action
       /\ Len(requests[1].data.Parameters) = Len(call.args)
       /\ \A i \in 1..Len(call.args) : requests[1].data.Parameters[i] = call.args[i]
       /\ Success => /\ result.kind = "return"
                     /\ result.value.t # "dict"
                     /\ result.value = reply.body.Value

\* action("park") without parameters has returned a Value
C5_Witness ==
    /\ Called
    /\ call.op = "action"
    /\ call.action = <<"p","a","r","k">>
    /\ call.args = <<>>
    /\ requests[1].data.Parameters = <<>>
    /\ Success
    /\ result.kind = "return"

\* action with two different parameters has been called
C5_WitnessOrder ==
    /\ Called
    /\ call.op = "action"
    /\ Len(call.args) = 2
    /\ call.args[1] # call.args[2]

----------------------------------------------------------------------------
(* driverinfo *)

Commas(s) == {i \in 1..Len(s) : s[i] = ","}

\* where segment k of s ends: at the k-th comma, or past the end of s
SegmentEnd(s, k) ==
    IF k = 0 THEN 0
    ELSE IF k > Cardinality(Commas(s)) THEN Len(s) + 1
    ELSE CHOOSE i \in Commas(s) : Cardinality({j \in Commas(s) : j <= i}) = k

\* the k-th of the segments the commas cut s into
Segment(s, k) == SubSeq(s, SegmentEnd(s, k - 1) + 1, SegmentEnd(s, k) - 1)

\* r is seg without its leading and trailing whitespace
IsTrimOf(r, seg) ==
    \E a \in 0..Len(seg), b \in 0..Len(seg) :
        /\ a + b <= Len(seg)
        /\ r = SubSeq(seg, a + 1, Len(seg) - b)
        /\ \A i \in 1..a : seg[i] \in Whitespace
        /\ \A i \in (Len(seg) - b + 1)..Len(seg) : seg[i] \in Whitespace
        /\ r # <<>> => r[1] \notin Whitespace /\ r[Len(r)] \notin Whitespace

\* C6: for any string Value answered to GET driverinfo, driverinfo() returns
\* the comma-separated segments of the Value in their order, each without its
\* leading and trailing whitespace: (number of commas + 1) elements, an empty
\* segment kept as the empty string, a Value without comma giving one element.
C6_Driverinfo ==
    (Called /\ call.op = "driverinfo" /\ Success /\ reply.body.Value.t = "str")
    => /\ result.kind = "return"
       /\ result.value.t = "list"
       /\ Len(result.value.l) = Cardinality(Commas(reply.body.Value.s)) + 1
       /\ \A k \in 1..Len(result.value.l) :
             /\ result.value.l[k].t = "str"
             /\ IsTrimOf(result.value.l[k].s, Segment(reply.body.Value.s, k))

\* driverinfo() has returned three elements, the second one an empty string
\* that comes from a segment of whitespace
C6_Witness ==
    /\ Called
    /\ call.op = "driverinfo"
    /\ Success
    /\ reply.body.Value = PyStr(<<",", " ", ",">>)
    /\ result.kind = "return"
    /\ Len(result.value.l) = 3
    /\ result.value.l[2] = PyStr(<<>>)

\* driverinfo() has returned ["A", "B", "C"] for "A, B ,C"
C6_WitnessABC ==
    /\ Called
    /\ call.op = "driverinfo"
    /\ Success
    /\ reply.body.Value = PyStr(<<"A", ",", " ", "B", " ", ",", "C">>)
    /\ result.kind = "return"
    /\ result.value.l = <<PyStr(<<"A">>), PyStr(<<"B">>), PyStr(<<"C">>)>>

----------------------------------------------------------------------------
(* Construction and state *)

\* C7: Device(...) called without an API version succeeds, and its base URL
\* contains /api/v1/, 1 being DEFAULT_API_VERSION.
C7_DefaultApiVersion ==
    (pc # "new" /\ "api_version" \notin ctor_args.given)
    => /\ pc # "failed"
       /\ Contains(self.base_url,
                   <<"/","a","p","i","/","v">> \o FmtD(DEFAULT_API_VERSION) \o <<"/">>)

\* C9: once the client is constructed no step writes a field of it: address,
\* device_type, device_number, api_version and base_url keep the values the
\* constructor set, through successful and failing calls alike.
C9_FieldsNeverWritten ==
    [][(pc \in {"ready", "calling"}) => (self = self')]_vars

\* a PUT has failed on a client that still has the fields it was built with
C9_Witness ==
    /\ Called
    /\ result.kind = "raise"
    /\ requests[1].method = "PUT"
    /\ self.base_url # <<>>
    /\ self.device_number = ctor_args.device_number

\* the HTTP verb of each operation
VerbOf(c) ==
    IF c.op \in {"action", "commandblind", "commandbool", "commandstring"} THEN "PUT"
    ELSE IF c.op = "connected" /\ c.connected.t # "None" THEN "PUT"
    ELSE "GET"

\* C10: a call of a public operation issues exactly one HTTP request, a GET or
\* a PUT according to the operation, and ends with the check of its response:
\* a call that fails has issued no second request.
C10_OneRequestPerCall ==
    Called => Len(requests) = 1 /\ requests[1].method = VerbOf(call)

\* a GET has failed on a protocol-level error after its single request
C10_Witness ==
    /\ Called
    /\ call.op = "supportedactions"
    /\ Has({"ErrorNumber", "ErrorMessage"})
    /\ reply.body.ErrorNumber # 0
    /\ result.kind = "raise"
    /\ Len(requests) = 1

====
